---- MODULE Spec2Model ----
(***************************************************************************)
(* Model of the Maclaurin-series notebook: print_maclaurin_table and the   *)
(* term generators exp_term, sin_term, cos_term, cosh_term, sinh_term.     *)
(*                                                                         *)
(* One call of print_maclaurin_table is followed statement by statement:   *)
(* pc names the statement the call is about to execute.  Floating-point    *)
(* values are modelled exactly on the values the modelled inputs produce:  *)
(* integer-valued doubles, +inf, -inf and nan, with IEEE-754 arithmetic on *)
(* the special values.                                                     *)
(***************************************************************************)
EXTENDS Integers, Sequences, FiniteSets, TLC

(***************************************************************************)
(* Bounds of the model (not program constants).                            *)
(***************************************************************************)
\* max_terms is drawn from -1..SmallTerms and from the values around the ceiling
SmallTerms == 3
\* the exponential series at x = 1 and x = -1 is evaluated for 1..MaxExpTerms terms
MaxExpTerms == 6
\* populations are in -1..MaxPop, times in 0..MaxTime, beta in 0..MaxBeta
MaxPop == 1
MaxTime == 1
MaxBeta == 2
\* angles are in 0..MaxAngle (alpha) and -MaxAngle..0 (theta), counted in
\* AngleDenominator-ths of a radian; divisions per radian are in -1..MaxDivisions
MaxAngle == 2
MaxDivisions == 2
\* finite evaluation points are the integers -MaxAbsX..MaxAbsX
MaxAbsX == 1

(***************************************************************************)
(* Program constants.                                                      *)
(***************************************************************************)
\* `if max_terms >= 100:`
MaxTermsCeiling == 100
\* n! is converted to a double by the division in a term generator; the
\* conversion overflows (OverflowError) for n > 170
FloatFactorialLimit == 170
\* the angles of draw_log_horn are counted in halves of a radian, and a
\* divisions_per_radian that is a float in halves
AngleDenominator == 2
\* a finite value that is no integer is carried with 16 decimals, as four groups of
\* four digits (the precision of a double near 1)
DecBase == 10000

(***************************************************************************)
(* Floating-point values.                                                  *)
(***************************************************************************)
Fin(n) == [k |-> "fin", v |-> n]
PosInf == [k |-> "inf", v |-> 1]
NegInf == [k |-> "inf", v |-> -1]
NaN == [k |-> "nan", v |-> 0]

IsFinite(a) == a.k = "fin"
IsSpecial(a) == a.k \in {"inf", "nan"}

\* A finite value that is no integer: v is its sign (1 or -1) and m its magnitude
\* <<whole, d1, d2, d3, d4>>, the d's being groups of four decimals.
Dec(sgn, mag) == [k |-> "dec", v |-> sgn, m |-> mag]

\* the canonical value of sign and magnitude: an integer is a Fin
Norm(sgn, mag) ==
    IF mag[2] = 0 /\ mag[3] = 0 /\ mag[4] = 0 /\ mag[5] = 0
    THEN Fin(sgn * mag[1])
    ELSE Dec(sgn, mag)

MagOf(a) ==
    IF a.k = "dec" THEN a.m ELSE <<(IF a.v < 0 THEN 0 - a.v ELSE a.v), 0, 0, 0, 0>>
SignOf(a) == IF a.v < 0 THEN -1 ELSE 1

\* sum of two magnitudes, the carries running from the last group to the whole
MagAdd(a, b) ==
    LET s5 == a[5] + b[5]
        s4 == a[4] + b[4] + (s5 \div DecBase)
        s3 == a[3] + b[3] + (s4 \div DecBase)
        s2 == a[2] + b[2] + (s3 \div DecBase)
        s1 == a[1] + b[1] + (s2 \div DecBase)
    IN  <<s1, s2 % DecBase, s3 % DecBase, s4 % DecBase, s5 % DecBase>>

\* difference of two magnitudes, a >= b, the borrows running the same way
MagSub(a, b) ==
    LET d5 == a[5] - b[5]
        d4 == a[4] - b[4] - (IF d5 < 0 THEN 1 ELSE 0)
        d3 == a[3] - b[3] - (IF d4 < 0 THEN 1 ELSE 0)
        d2 == a[2] - b[2] - (IF d3 < 0 THEN 1 ELSE 0)
        d1 == a[1] - b[1] - (IF d2 < 0 THEN 1 ELSE 0)
    IN  <<d1, d2 % DecBase, d3 % DecBase, d4 % DecBase, d5 % DecBase>>

MagLess(a, b) ==
    \E i \in 1..5 : a[i] < b[i] /\ \A j \in 1..(i - 1) : a[j] = b[j]

\* sum of two finite values
NumAdd(a, b) ==
    IF SignOf(a) = SignOf(b) THEN Norm(SignOf(a), MagAdd(MagOf(a), MagOf(b)))
    ELSE IF MagLess(MagOf(a), MagOf(b))
         THEN Norm(SignOf(b), MagSub(MagOf(b), MagOf(a)))
    ELSE Norm(SignOf(a), MagSub(MagOf(a), MagOf(b)))

\* p / n for integers p and n > 0, rounded to the 16 decimals carried
NumDiv(p, n) ==
    LET q  == IF p < 0 THEN 0 - p ELSE p
        r0 == q % n
        r1 == (r0 * DecBase) % n
        r2 == (r1 * DecBase) % n
        r3 == (r2 * DecBase) % n
        r4 == (r3 * DecBase) % n
        t  == <<q \div n, (r0 * DecBase) \div n, (r1 * DecBase) \div n,
                (r2 * DecBase) \div n, (r3 * DecBase) \div n>>
    IN  Norm(IF p < 0 THEN -1 ELSE 1,
             IF 2 * r4 >= n THEN MagAdd(t, <<0, 0, 0, 0, 1>>) ELSE t)

\* int(v) of a finite value: truncation towards zero
IntOf(a) == IF a.k = "dec" THEN a.v * a.m[1] ELSE a.v

FNeg(a) == IF a.k = "nan" THEN NaN ELSE [a EXCEPT !.v = 0 - a.v]

\* IEEE addition: nan is absorbing, inf + -inf is nan
FAdd(a, b) ==
    IF a.k = "nan" \/ b.k = "nan" THEN NaN
    ELSE IF a.k = "inf" /\ b.k = "inf" THEN (IF a.v = b.v THEN a ELSE NaN)
    ELSE IF a.k = "inf" THEN a
    ELSE IF b.k = "inf" THEN b
    ELSE IF a.k = "fin" /\ b.k = "fin" THEN Fin(a.v + b.v)
    ELSE NumAdd(a, b)

FSub(a, b) == FAdd(a, FNeg(b))

Sign(n) == IF n > 0 THEN 1 ELSE IF n < 0 THEN -1 ELSE 0

\* IEEE multiplication: 0 * inf is nan
FMul(a, b) ==
    IF a.k = "nan" \/ b.k = "nan" THEN NaN
    ELSE IF a.k = "inf" \/ b.k = "inf"
         THEN (IF Sign(a.v) * Sign(b.v) = 0 THEN NaN
               ELSE [k |-> "inf", v |-> Sign(a.v) * Sign(b.v)])
    ELSE Fin(a.v * b.v)

RECURSIVE IntPow(_, _)
IntPow(b, n) ==
    IF n = 0 THEN 1 ELSE IF b \in {0, 1} THEN b ELSE b * IntPow(b, n - 1)

\* np.power(x, n) for an integer n >= 0: pow(x, 0) is 1 for every x, nan included
NpPower(x, n) ==
    IF n = 0 THEN Fin(1)
    ELSE IF x.k = "nan" THEN NaN
    ELSE IF x.k = "inf" THEN (IF x.v < 0 /\ n % 2 = 1 THEN NegInf ELSE PosInf)
    ELSE Fin(IntPow(x.v, n))

\* `v / np.math.factorial(n)`: raises OverflowError when v is a float and n! does
\* not fit a double; x = 0 is the Python int 0 and 0 / n! is 0.0 for every n
DivFactorialRaises(v, n) == IsSpecial(v) /\ n > FloatFactorialLimit

RECURSIVE FactorialOf(_)
FactorialOf(n) == IF n <= 1 THEN 1 ELSE n * FactorialOf(n - 1)

\* a divisor r in place of r!
FactorialShort(n) == IF n = 0 THEN 1 ELSE n

\* np.math.factorial(n)
Factorial(n) == FactorialOf(n)

\* the quotient of an integer v (0, or a power of 1 or -1) or a special value by n!
DivFactorial(v, n) ==
    CASE IsSpecial(v) -> v
      [] IsFinite(v) /\ v.v = 0 -> Fin(0)
      [] IsFinite(v) /\ v.v # 0 /\ n <= 1 -> v
      [] IsFinite(v) /\ v.v # 0 /\ n > 1 -> NumDiv(v.v, Factorial(n))

(***************************************************************************)
(* Names: strings as sequences of characters.                              *)
(***************************************************************************)
TermSuffix == <<"_", "t", "e", "r", "m">>

N_exp == <<"e", "x", "p">>
N_sin == <<"s", "i", "n">>
N_cos == <<"c", "o", "s">>
N_cosh == <<"c", "o", "s", "h">>
N_sinh == <<"s", "i", "n", "h">>
N_abs == <<"a", "b", "s">>
N_pi == <<"p", "i">>
N_foo == <<"f", "o", "o">>

\* str.replace("_term", ""): every non-overlapping occurrence, left to right
RECURSIVE ReplaceTerm(_)
ReplaceTerm(s) ==
    IF Len(s) < Len(TermSuffix) THEN s
    ELSE IF SubSeq(s, 1, Len(TermSuffix)) = TermSuffix
         THEN ReplaceTerm(SubSeq(s, Len(TermSuffix) + 1, Len(s)))
    ELSE <<Head(s)>> \o ReplaceTerm(Tail(s))

(***************************************************************************)
(* The numeric-function provider: the attributes of the numpy module.      *)
(***************************************************************************)
NpUfuncs == {N_exp, N_sin, N_cos, N_cosh, N_sinh, N_abs}
\* attributes of numpy that are not callable (np.pi is a float)
NpPlainAttrs == {N_pi}

\* hasattr(np, name)
HasAttr(name) == name \in NpUfuncs \cup NpPlainAttrs

\* np.<name>(x) on the modelled evaluation points
RealFunction(name, x) ==
    CASE name = N_abs ->
            (IF x.k = "nan" THEN NaN ELSE IF x.k = "inf" THEN PosInf
             ELSE Fin(IF x.v < 0 THEN 0 - x.v ELSE x.v))
      [] name = N_exp /\ x = Fin(0) -> Fin(1)
      [] name = N_exp /\ x = Fin(1) -> Dec(1, <<2, 7182, 8182, 8459, 451>>)
      [] name = N_exp /\ x = Fin(-1) -> Dec(1, <<0, 3678, 7944, 1171, 4423>>)
      [] name = N_exp /\ x.k = "nan" -> NaN
      [] name = N_exp /\ x = PosInf -> PosInf
      [] name = N_exp /\ x = NegInf -> Fin(0)
      [] name = N_sin /\ x = Fin(0) -> Fin(0)
      [] name = N_sin /\ IsSpecial(x) -> NaN
      [] name = N_cos /\ x = Fin(0) -> Fin(1)
      [] name = N_cos /\ IsSpecial(x) -> NaN
      [] name = N_cosh /\ x = Fin(0) -> Fin(1)
      [] name = N_cosh /\ x.k = "nan" -> NaN
      [] name = N_cosh /\ x.k = "inf" -> PosInf
      [] name = N_sinh /\ x = Fin(0) -> Fin(0)
      [] name = N_sinh /\ IsSpecial(x) -> x

(***************************************************************************)
(* Term generators: the five of the notebook, and term functions a user of *)
(* the notebook passes in (any function with a __name__).                  *)
(***************************************************************************)
TermFn(name, body) == [name |-> name, body |-> body]

exp_term == TermFn(N_exp \o TermSuffix, "exp")
sin_term == TermFn(N_sin \o TermSuffix, "sin")
cos_term == TermFn(N_cos \o TermSuffix, "cos")
cosh_term == TermFn(N_cosh \o TermSuffix, "cosh")
sinh_term == TermFn(N_sinh \o TermSuffix, "sinh")
NotebookTerms == {exp_term, sin_term, cos_term, cosh_term, sinh_term}

\* def abs_term(r, x): return r * x
abs_term == TermFn(N_abs \o TermSuffix, "rx")
\* def abs_term_term(r, x): return r * x
abs_term_term == TermFn(N_abs \o TermSuffix \o TermSuffix, "rx")
\* def foo_term(r, x): return r * x        (numpy has no attribute foo)
foo_term == TermFn(N_foo \o TermSuffix, "rx")
\* def pi_term(r, x): return r * x         (np.pi is not callable)
pi_term == TermFn(N_pi \o TermSuffix, "rx")
\* def exp(r, x): ... the body of exp_term under a name without the suffix
exp_plain == TermFn(N_exp, "exp")
UserTerms == {abs_term, abs_term_term, foo_term, pi_term, exp_plain}

TermFunctions == NotebookTerms \cup UserTerms

\* the even powers for the sine series too
TermPowerEven(body, r) == IF body = "exp" THEN r ELSE 2 * r

\* the power of x and the factorial argument of the r-th term
TermPower(body, r) ==
    CASE body = "exp" -> r
      [] body \in {"sin", "sinh"} -> 2 * r + 1
      [] body \in {"cos", "cosh"} -> 2 * r

\* np.power(-1, r), present in sin_term and cos_term only
TermSign(body, r) ==
    IF body \in {"sin", "cos"} /\ r % 2 = 1 THEN Fin(-1) ELSE Fin(1)

\* whether term(r=r, x=x) raises
TermRaises(t, r, x) ==
    /\ t.body # "rx"
    /\ DivFactorialRaises(FMul(TermSign(t.body, r), NpPower(x, TermPower(t.body, r))),
                          TermPower(t.body, r))

\* the value term(r=r, x=x) returns
TermValue(t, r, x) ==
    IF t.body = "rx" THEN FMul(Fin(r), x)
    ELSE DivFactorial(FMul(TermSign(t.body, r), NpPower(x, TermPower(t.body, r))),
                      TermPower(t.body, r))

(***************************************************************************)
(* Helpers of print_maclaurin_table.                                       *)
(***************************************************************************)
\* an off-by-one ceiling check
TooManyTermsStrict(m) == m > MaxTermsCeiling

\* no ceiling check
TooManyTermsNever(m) == FALSE

\* `if max_terms >= 100:`
TooManyTerms(m) == m >= MaxTermsCeiling

\* `function_name = term.__name__.replace("_term", "")`
\* the name without its trailing "_term", if it has one
RemoveSuffix(s) ==
    IF Len(s) >= Len(TermSuffix)
       /\ SubSeq(s, Len(s) - Len(TermSuffix) + 1, Len(s)) = TermSuffix
    THEN SubSeq(s, 1, Len(s) - Len(TermSuffix))
    ELSE s

\* a lookup name that loses the trailing suffix only
FunctionNameWithoutSuffix(t) == RemoveSuffix(t.name)

\* `function_name = term.__name__.replace("_term", "")`
FunctionName(t) == ReplaceTerm(t.name)

\* no lookup check
UnknownFunctionNever(name) == FALSE

\* `if not hasattr(np, function_name):`
UnknownFunction(name) == ~HasAttr(name)

\* np.cumsum(terms): the running sum, accumulated in index order
RECURSIVE CumSumFrom(_, _, _)
CumSumFrom(acc, s, i) ==
    IF i > Len(s) THEN <<>>
    ELSE <<FAdd(acc, s[i])>> \o CumSumFrom(FAdd(acc, s[i]), s, i + 1)

\* the terms themselves, not accumulated
CumSumNoCarry(s) == s

CumSum(s) == IF Len(s) = 0 THEN <<>> ELSE <<s[1]>> \o CumSumFrom(s[1], s, 2)

\* the subtraction the other way round
DifferencesFlipped(sums, real) == [i \in 1..Len(sums) |-> FSub(real, sums[i])]

\* `differences = result_to_r - real_value`, elementwise
Differences(sums, real) == [i \in 1..Len(sums) |-> FSub(sums[i], real)]

\* int(v) raises ValueError on nan and OverflowError on an infinity
IntRaises(v) ==
    IF v.k = "nan" THEN "ValueError" ELSE IF v.k = "inf" THEN "OverflowError" ELSE "no"

\* len(str(n)) for an integer n
RECURSIVE Digits(_)
Digits(n) == IF n < 10 THEN 1 ELSE 1 + Digits(n \div 10)

StrLen(n) == IF n < 0 THEN 1 + Digits(0 - n) ELSE Digits(n)

Max(a, b) == IF a >= b THEN a ELSE b

\* `column_width = 16 + widest_num_width`
ColumnWidth(real, last) == 16 + Max(StrLen(IntOf(real)), StrLen(IntOf(last)))

\* "{: w.12f}" (flag " ") and "{:+w.12f}" (flag "+"): the sign character, the
\* digits before the point and the number of decimals printed
\* the magnitude of a finite value rounded to 12 decimals: the whole part and three
\* groups of four decimals
Round12(v) ==
    LET m == MagOf(v)
        t == <<m[1], m[2], m[3], m[4], 0>>
    IN  IF 2 * m[5] >= DecBase THEN MagAdd(t, <<0, 0, 0, 1, 0>>) ELSE t

FormatF12(v, flag, width) ==
    [sign |-> IF v.k # "nan" /\ v.v < 0 THEN "-" ELSE flag,
     k |-> IF v.k = "dec" THEN "fin" ELSE v.k,
     whole |-> IF v.k = "dec" THEN Round12(v)[1]
               ELSE IF v.v < 0 THEN 0 - v.v ELSE v.v,
     frac |-> IF v.k = "dec" THEN SubSeq(Round12(v), 2, 4) ELSE <<0, 0, 0>>,
     decimals |-> 12,
     width |-> width]

\* the value a formatted number denotes
Unformat(f) ==
    IF f.k = "nan" THEN NaN
    ELSE IF f.k = "fin" /\ f.frac # <<0, 0, 0>>
         THEN Dec(IF f.sign = "-" THEN -1 ELSE 1, <<f.whole>> \o f.frac \o <<0>>)
    ELSE [k |-> f.k, v |-> IF f.sign = "-" THEN 0 - f.whole ELSE f.whole]

\* one printed row of the table
TableRow(r, ts, sums, diffs, cw) ==
    [kind |-> "row",
     number |-> r + 1,
     term |-> FormatF12(ts[r + 1], " ", cw - 2),
     sofar |-> FormatF12(sums[r + 1], " ", cw - 2),
     error |-> FormatF12(diffs[r + 1], "+", cw - 2)]

\* the five lines printed above the rows
TableHeader(name, xv, cw) ==
    << [kind |-> "rule", width |-> cw],
       [kind |-> "title", name |-> name, x |-> xv],
       [kind |-> "rule", width |-> cw],
       [kind |-> "heading", name |-> name, width |-> cw],
       [kind |-> "separator", width |-> cw] >>

\* the three lines printed below the rows
TableFooter(real, cw) ==
    << [kind |-> "separator", width |-> cw],
       [kind |-> "real", value |-> FormatF12(real, " ", cw - 2)],
       [kind |-> "base", width |-> cw] >>

(***************************************************************************)
(* State.                                                                  *)
(***************************************************************************)
VARIABLES
    pc,             \* the statement the call is at; "idle" before the first call
    term, x, max_terms,         \* the arguments of the call
    function_name, real_value,  \* locals of print_maclaurin_table
    terms, r, result_to_r, differences, column_width,
    out,            \* the lines the call has printed
    outcome,        \* how the call ended: "running" until it does
    returned,       \* what the caller gets: "None", or "raised" for an exception
    termCalls,      \* the indices r the term function was invoked with, in order
    realCalls,      \* the number of calls of the numpy function
    prevOutcome, prevReturned,  \* outcome and returned of the previous call
    memo,           \* arguments and result of a remembered earlier call
    \* population_derivatives: the last call and the one before it
    lvCall, lvResult, lvPrevCall, lvPrevResult,
    \* draw_log_horn
    hpc,            \* the statement the call is at
    alpha_min, alpha_max, theta_min, theta_max, divisions_per_radian,
    alpha_array, theta_array,   \* the sample points, by their indices
    grid,           \* the shape of alpha_grid, theta_grid and of x, y, z
    fig,            \* a figure has been created
    surface,        \* plot_surface has added the surface to the figure
    hout,           \* the lines the call has printed
    houtcome        \* how the call ended: "running" until it does

tableVars == <<pc, term, x, max_terms, function_name, real_value, terms, r,
               result_to_r, differences, column_width, out, outcome, returned,
               termCalls, realCalls, prevOutcome, prevReturned, memo>>
lvVars == <<lvCall, lvResult, lvPrevCall, lvPrevResult>>
hornVars == <<hpc, alpha_min, alpha_max, theta_min, theta_max, divisions_per_radian,
              alpha_array, theta_array, grid, fig, surface, hout, houtcome>>
\* what print_maclaurin_table has no access to
others == <<lvVars, hornVars>>

vars == <<tableVars, lvVars, hornVars>>

NoValue == [k |-> "none", v |-> 0]
NoTerm == TermFn(<<>>, "none")
NoCall == [set |-> FALSE, populations |-> <<0, 0>>, t |-> 0, beta |-> 0]
NoGrid == [built |-> FALSE, rows |-> 0, cols |-> 0]
NoDivisions == [type |-> "none", n |-> 0]
NoMemo == [set |-> FALSE, term |-> NoTerm, x |-> NoValue, max_terms |-> 0,
           outcome |-> "none", returned |-> "none", out |-> <<>>]

\* the evaluation points
SpecialX == {PosInf, NaN}
FiniteX == {Fin(n) : n \in (0 - MaxAbsX)..MaxAbsX}
\* a term generator with factorial denominators, and the exponential, sine, ...
\* of the provider, are modelled exactly at x = 0 and at the special values
XValuesFor(t) ==
    IF t.body = "rx" /\ FunctionName(t) \notin (NpUfuncs \ {N_abs})
    THEN FiniteX \cup SpecialX
    ELSE {Fin(0)} \cup SpecialX

MaxTermsValues ==
    ((0 - 1)..SmallTerms) \cup ((MaxTermsCeiling - 2)..(MaxTermsCeiling + 1))

Init ==
    /\ pc = "idle"
    /\ term = NoTerm /\ x = NoValue /\ max_terms = 0
    /\ function_name = <<>> /\ real_value = NoValue
    /\ terms = <<>> /\ r = 0 /\ result_to_r = <<>> /\ differences = <<>>
    /\ column_width = 0
    /\ out = <<>>
    /\ outcome = "none" /\ returned = "none"
    /\ termCalls = <<>> /\ realCalls = 0
    /\ prevOutcome = "none" /\ prevReturned = "none"
    /\ memo = NoMemo
    /\ lvCall = NoCall /\ lvResult = <<>>
    /\ lvPrevCall = NoCall /\ lvPrevResult = <<>>
    /\ hpc = "idle"
    /\ alpha_min = 0 /\ alpha_max = 0 /\ theta_min = 0 /\ theta_max = 0
    /\ divisions_per_radian = NoDivisions
    /\ alpha_array = <<>> /\ theta_array = <<>> /\ grid = NoGrid
    /\ fig = FALSE /\ surface = FALSE
    /\ hout = <<>> /\ houtcome = "none"

locals == <<function_name, real_value, terms, r, result_to_r, differences, column_width>>
args == <<term, x, max_terms>>
prev == <<prevOutcome, prevReturned, memo>>
calls == <<termCalls, realCalls>>

\* a loop over the terms that leaves the last index out
TermLoopStopsEarly(i, m) == i < m - 1

\* `for r in range(max_terms):` of the loop over the terms
TermLoopContinues(i, m) == i < m

\* a loop over the rows that stops at the first row whose error is zero
RowLoopUntilConverged(i, m) ==
    i < m /\ (IF i = 0 THEN TRUE ELSE differences[i] # Fin(0))

\* `for r in range(max_terms):` of the loop over the rows
RowLoopContinues(i, m) == i < m

\* a return that hands the caller the kind of failure
ReturnStatus(o) ==
    /\ pc' = "done"
    /\ outcome' = o
    /\ returned' = IF o = "ok" THEN "None" ELSE o

\* the call returns None
Return(o) ==
    /\ pc' = "done"
    /\ outcome' = o
    /\ returned' = "None"

\* the call ends with an uncaught exception
Raise(e) ==
    /\ pc' = "done"
    /\ outcome' = e
    /\ returned' = "raised"

\* a call whose printed lines are appended to those of the calls before it
EnterKeepingOutput(t, xv, m) ==
    /\ pc \in {"idle", "done"}
    /\ pc' = "check_terms"
    /\ term' = t /\ x' = xv /\ max_terms' = m
    /\ function_name' = <<>> /\ real_value' = NoValue
    /\ terms' = <<>> /\ r' = 0 /\ result_to_r' = <<>> /\ differences' = <<>>
    /\ column_width' = 0
    /\ UNCHANGED out
    /\ outcome' = "running" /\ returned' = "pending"
    /\ termCalls' = <<>> /\ realCalls' = 0
    /\ prevOutcome' = outcome /\ prevReturned' = returned
    /\ UNCHANGED others

\* the function is entered: its arguments are bound, its locals are unassigned
\* and nothing of an earlier call is left
Enter(t, xv, m) ==
    /\ pc \in {"idle", "done"}
    /\ pc' = "check_terms"
    /\ term' = t /\ x' = xv /\ max_terms' = m
    /\ function_name' = <<>> /\ real_value' = NoValue
    /\ terms' = <<>> /\ r' = 0 /\ result_to_r' = <<>> /\ differences' = <<>>
    /\ column_width' = 0
    /\ out' = <<>>
    /\ outcome' = "running" /\ returned' = "pending"
    /\ termCalls' = <<>> /\ realCalls' = 0
    /\ prevOutcome' = outcome /\ prevReturned' = returned
    /\ UNCHANGED others

\* print_maclaurin_table(term=t, x=xv, max_terms=m) is called
Call(t, xv, m) ==
    /\ Enter(t, xv, m)
    /\ UNCHANGED memo

\* the same, the observer remembering the call that has just ended
RememberAndCall(t, xv, m) ==
    /\ pc = "done"
    /\ memo' = [set |-> TRUE, term |-> term, x |-> x, max_terms |-> max_terms,
                outcome |-> outcome, returned |-> returned, out |-> out]
    /\ Enter(t, xv, m)

\* lines 58-60
CheckMaxTerms ==
    /\ pc = "check_terms"
    /\ IF TooManyTerms(max_terms)
       THEN /\ out' = Append(out, [kind |-> "too_many_terms"])
            /\ Return("too_many_terms")
       ELSE /\ pc' = "check_name"
            /\ UNCHANGED <<out, outcome, returned>>
    /\ UNCHANGED <<args, locals, calls, prev, others>>

\* lines 65-69
CheckFunctionName ==
    /\ pc = "check_name"
    /\ function_name' = FunctionName(term)
    /\ IF UnknownFunction(function_name')
       THEN /\ out' = Append(out, [kind |-> "unknown_function", name |-> function_name'])
            /\ Return("unknown_function")
       ELSE /\ pc' = "real_value"
            /\ UNCHANGED <<out, outcome, returned>>
    /\ UNCHANGED <<args, real_value, terms, r, result_to_r, differences,
                   column_width, calls, prev, others>>

\* lines 72-73: getattr(np, function_name), then the call of what it returned
ComputeRealValue ==
    /\ pc = "real_value"
    /\ IF function_name \in NpUfuncs
       THEN /\ real_value' = RealFunction(function_name, x)
            /\ realCalls' = realCalls + 1
            /\ pc' = "alloc"
            /\ UNCHANGED <<outcome, returned>>
       ELSE /\ Raise(IF HasAttr(function_name) THEN "TypeError" ELSE "AttributeError")
            /\ UNCHANGED <<real_value, realCalls>>
    /\ UNCHANGED <<args, function_name, terms, r, result_to_r, differences,
                   column_width, out, termCalls, prev, others>>

\* line 76: np.zeros(max_terms) raises ValueError for a negative length
AllocTerms ==
    /\ pc = "alloc"
    /\ IF max_terms < 0
       THEN /\ Raise("ValueError")
            /\ UNCHANGED terms
       ELSE /\ terms' = [i \in 1..max_terms |-> Fin(0)]
            /\ pc' = "loop"
            /\ UNCHANGED <<outcome, returned>>
    /\ r' = 0
    /\ UNCHANGED <<args, function_name, real_value, result_to_r, differences,
                   column_width, out, calls, prev, others>>

\* lines 77-78: one iteration of the loop over the terms
ComputeTerm ==
    /\ pc = "loop"
    /\ TermLoopContinues(r, max_terms)
    /\ termCalls' = Append(termCalls, r)
    /\ IF TermRaises(term, r, x)
       THEN /\ Raise("OverflowError")
            /\ UNCHANGED <<terms, r>>
       ELSE /\ terms' = [terms EXCEPT ![r + 1] = TermValue(term, r, x)]
            /\ r' = r + 1
            /\ UNCHANGED <<pc, outcome, returned>>
    /\ UNCHANGED <<args, function_name, real_value, result_to_r, differences,
                   column_width, out, realCalls, prev, others>>

\* lines 82-83, after the loop
ComputeSums ==
    /\ pc = "loop"
    /\ ~TermLoopContinues(r, max_terms)
    /\ result_to_r' = CumSum(terms)
    /\ differences' = Differences(result_to_r', real_value)
    /\ pc' = "widths"
    /\ UNCHANGED <<args, function_name, real_value, terms, r, column_width, out,
                   outcome, returned, calls, prev, others>>

\* lines 90-100: int(real_value), then result_to_r[-1], then int of it
ComputeWidths ==
    /\ pc = "widths"
    /\ IF IntRaises(real_value) # "no"
       THEN /\ Raise(IntRaises(real_value))
            /\ UNCHANGED column_width
       ELSE IF Len(result_to_r) = 0
       THEN /\ Raise("IndexError")
            /\ UNCHANGED column_width
       ELSE IF IntRaises(result_to_r[Len(result_to_r)]) # "no"
       THEN /\ Raise(IntRaises(result_to_r[Len(result_to_r)]))
            /\ UNCHANGED column_width
       ELSE /\ column_width' = ColumnWidth(real_value, result_to_r[Len(result_to_r)])
            /\ pc' = "print_head"
            /\ UNCHANGED <<outcome, returned>>
    /\ UNCHANGED <<args, function_name, real_value, terms, r, result_to_r,
                   differences, out, calls, prev, others>>

\* lines 103-107
PrintHeader ==
    /\ pc = "print_head"
    /\ out' = out \o TableHeader(function_name, x, column_width)
    /\ r' = 0
    /\ pc' = "print_rows"
    /\ UNCHANGED <<args, function_name, real_value, terms, result_to_r, differences,
                   column_width, outcome, returned, calls, prev, others>>

\* lines 110-114: one iteration of the loop over the rows
PrintRow ==
    /\ pc = "print_rows"
    /\ RowLoopContinues(r, max_terms)
    /\ out' = Append(out, TableRow(r, terms, result_to_r, differences, column_width))
    /\ r' = r + 1
    /\ UNCHANGED <<pc, args, function_name, real_value, terms, result_to_r,
                   differences, column_width, outcome, returned, calls, prev, others>>

\* lines 117-119, after the loop; the function ends and returns None
PrintFooter ==
    /\ pc = "print_rows"
    /\ ~RowLoopContinues(r, max_terms)
    /\ out' = out \o TableFooter(real_value, column_width)
    /\ Return("ok")
    /\ UNCHANGED <<args, locals, calls, prev, others>>

Next ==
    \/ \E t \in TermFunctions : \E xv \in XValuesFor(t) : \E m \in MaxTermsValues :
          Call(t, xv, m)
    \/ CheckMaxTerms
    \/ CheckFunctionName
    \/ ComputeRealValue
    \/ AllocTerms
    \/ ComputeTerm
    \/ ComputeSums
    \/ ComputeWidths
    \/ PrintHeader
    \/ PrintRow
    \/ PrintFooter

Spec == Init /\ [][Next]_vars

(***************************************************************************)
(* Repeated calls on a small set of arguments, one earlier call remembered. *)
(***************************************************************************)
DetTerms == {exp_term, abs_term, foo_term}
DetMaxTerms == (0..(SmallTerms - 1)) \cup {MaxTermsCeiling}

NextDet ==
    \/ \E t \in DetTerms : \E xv \in XValuesFor(t) : \E m \in DetMaxTerms :
          Call(t, xv, m)
    \/ \E t \in DetTerms : \E xv \in XValuesFor(t) : \E m \in DetMaxTerms :
          RememberAndCall(t, xv, m)
    \/ CheckMaxTerms
    \/ CheckFunctionName
    \/ ComputeRealValue
    \/ AllocTerms
    \/ ComputeTerm
    \/ ComputeSums
    \/ ComputeWidths
    \/ PrintHeader
    \/ PrintRow
    \/ PrintFooter

SpecDet == Init /\ [][NextDet]_vars

(***************************************************************************)
(* The exponential series at the points 1 and -1 (the notebook's call is   *)
(* print_maclaurin_table(x=1, term=exp_term)), with few enough terms for   *)
(* r! to be divided exactly.                                               *)
(***************************************************************************)
ExpX == {Fin(1), Fin(-1)}
ExpMaxTerms == 1..MaxExpTerms

NextExp ==
    \/ \E xv \in ExpX : \E m \in ExpMaxTerms : Call(exp_term, xv, m)
    \/ CheckMaxTerms
    \/ CheckFunctionName
    \/ ComputeRealValue
    \/ AllocTerms
    \/ ComputeTerm
    \/ ComputeSums
    \/ ComputeWidths
    \/ PrintHeader
    \/ PrintRow
    \/ PrintFooter

SpecExp == Init /\ [][NextExp]_vars

(***************************************************************************)
(* population_derivatives(populations, t, beta) of the Lotka-Volterra      *)
(* notebook.                                                               *)
(***************************************************************************)
\* derivatives that drift with the time
population_derivatives_timed(populations, t, beta) ==
    LET y == populations[1]
        z == populations[2]
    IN  <<(z - beta) * y + t, (1 - y) * z>>

population_derivatives(populations, t, beta) ==
    LET y == populations[1]
        z == populations[2]
        y_prime == (z - beta) * y
        z_prime == (1 - y) * z
    IN  <<y_prime, z_prime>>

PopValues == (0 - 1)..MaxPop
TimeValues == 0..MaxTime
BetaValues == 0..MaxBeta

\* a call of the function; the observer keeps the call before it
CallPopulationDerivatives(p, t, b) ==
    /\ lvPrevCall' = lvCall
    /\ lvPrevResult' = lvResult
    /\ lvCall' = [set |-> TRUE, populations |-> p, t |-> t, beta |-> b]
    /\ lvResult' = population_derivatives(p, t, b)
    /\ UNCHANGED <<tableVars, hornVars>>

NextLV ==
    \E y \in PopValues : \E z \in PopValues : \E t \in TimeValues : \E b \in BetaValues :
        CallPopulationDerivatives(<<y, z>>, t, b)

SpecLV == Init /\ [][NextLV]_vars

(***************************************************************************)
(* draw_log_horn, called by keyword with b, w_0, alpha_min, alpha_max,    *)
(* theta_min, theta_max, divisions_per_radian.  b and w_0 scale the points *)
(* of the surface and take no part in the checks or in the shape of the    *)
(* grid.                                                                   *)
(***************************************************************************)
AlphaValues == 0..MaxAngle
ThetaValues == (0 - MaxAngle)..0
\* an int n, or the float n / AngleDenominator
DivisionValues ==
    [type : {"int", "float"}, n : (0 - 1)..MaxDivisions]

\* `if alpha_min > alpha_max:`, `if theta_min > theta_max:`
RangeReversed(lo, hi) == lo > hi

\* a check that takes any positive number
DivisionsPositive(d) == d.n > 0

\* `divisions_per_radian > 0 and isinstance(divisions_per_radian, int)`
DivisionsOk(d) == d.n > 0 /\ d.type = "int"

\* int(range * divisions_per_radian), the range being a number of
\* AngleDenominator-ths and not negative
Samples(range, d) == (range * d.n) \div AngleDenominator

\* np.linspace(lo, hi, n): n points
Linspace(n) == [i \in 1..n |-> i - 1]

\* the grid has no quadrilateral to draw
Degenerate(g) == g.rows < 2 \/ g.cols < 2

HReturn(o) == hpc' = "done" /\ houtcome' = o

DrawLogHorn(amin, amax, tmin, tmax, d) ==
    /\ hpc \in {"idle", "done"}
    /\ hpc' = "check_alpha"
    /\ alpha_min' = amin /\ alpha_max' = amax
    /\ theta_min' = tmin /\ theta_max' = tmax
    /\ divisions_per_radian' = d
    /\ alpha_array' = <<>> /\ theta_array' = <<>> /\ grid' = NoGrid
    /\ fig' = FALSE /\ surface' = FALSE
    /\ hout' = <<>> /\ houtcome' = "running"
    /\ UNCHANGED <<tableVars, lvVars>>

hornArgs == <<alpha_min, alpha_max, theta_min, theta_max, divisions_per_radian>>
hornLocals == <<alpha_array, theta_array, grid, fig, surface>>

\* lines 58-60
CheckAlpha ==
    /\ hpc = "check_alpha"
    /\ IF RangeReversed(alpha_min, alpha_max)
       THEN /\ hout' = Append(hout, [kind |-> "alpha_error"])
            /\ HReturn("alpha_error")
       ELSE /\ hpc' = "check_theta"
            /\ UNCHANGED <<hout, houtcome>>
    /\ UNCHANGED <<hornArgs, hornLocals, tableVars, lvVars>>

\* lines 61-63
CheckTheta ==
    /\ hpc = "check_theta"
    /\ IF RangeReversed(theta_min, theta_max)
       THEN /\ hout' = Append(hout, [kind |-> "theta_error"])
            /\ HReturn("theta_error")
       ELSE /\ hpc' = "check_divisions"
            /\ UNCHANGED <<hout, houtcome>>
    /\ UNCHANGED <<hornArgs, hornLocals, tableVars, lvVars>>

\* lines 64-66
CheckDivisions ==
    /\ hpc = "check_divisions"
    /\ IF ~DivisionsOk(divisions_per_radian)
       THEN /\ hout' = Append(hout, [kind |-> "divisions_error"])
            /\ HReturn("divisions_error")
       ELSE /\ hpc' = "grid"
            /\ UNCHANGED <<hout, houtcome>>
    /\ UNCHANGED <<hornArgs, hornLocals, tableVars, lvVars>>

\* lines 70-88: the two arrays, their mesh, and x, y, z of the shape of the mesh
BuildGrid ==
    /\ hpc = "grid"
    /\ alpha_array' = Linspace(Samples(alpha_max - alpha_min, divisions_per_radian))
    /\ theta_array' = Linspace(Samples(theta_max - theta_min, divisions_per_radian))
    /\ grid' = [built |-> TRUE, rows |-> Len(theta_array'), cols |-> Len(alpha_array')]
    /\ hpc' = "figure"
    /\ UNCHANGED <<hornArgs, fig, surface, hout, houtcome, tableVars, lvVars>>

\* lines 92-101
CreateFigure ==
    /\ hpc = "figure"
    /\ fig' = TRUE
    /\ hpc' = "surface"
    /\ UNCHANGED <<hornArgs, alpha_array, theta_array, grid, surface, hout, houtcome,
                   tableVars, lvVars>>

\* line 105: what plot_surface does with a grid that has no quadrilateral is the
\* library's choice: it returns, or it raises
PlotSurface ==
    /\ hpc = "surface"
    /\ \/ /\ surface' = TRUE
          /\ hpc' = "extents"
          /\ UNCHANGED houtcome
       \/ /\ Degenerate(grid)
          /\ HReturn("PlotError")
          /\ UNCHANGED surface
    /\ UNCHANGED <<hornArgs, alpha_array, theta_array, grid, fig, hout,
                   tableVars, lvVars>>

\* lines 115-121: x.max() of an array without elements raises ValueError
ComputeExtents ==
    /\ hpc = "extents"
    /\ IF grid.rows = 0 \/ grid.cols = 0
       THEN HReturn("ValueError")
       ELSE hpc' = "show" /\ UNCHANGED houtcome
    /\ UNCHANGED <<hornArgs, hornLocals, hout, tableVars, lvVars>>

\* lines 125-126
Show ==
    /\ hpc = "show"
    /\ HReturn("shown")
    /\ UNCHANGED <<hornArgs, hornLocals, hout, tableVars, lvVars>>

NextHorn ==
    \/ \E amin \in AlphaValues : \E amax \in AlphaValues :
       \E tmin \in ThetaValues : \E tmax \in ThetaValues :
       \E d \in DivisionValues :
          DrawLogHorn(amin, amax, tmin, tmax, d)
    \/ CheckAlpha
    \/ CheckTheta
    \/ CheckDivisions
    \/ BuildGrid
    \/ CreateFigure
    \/ PlotSurface
    \/ ComputeExtents
    \/ Show

SpecHorn == Init /\ [][NextHorn]_vars

(***************************************************************************)
(* Properties.                                                             *)
(***************************************************************************)
Rows == SelectSeq(out, LAMBDA l : l.kind = "row")
RealLines == SelectSeq(out, LAMBDA l : l.kind = "real")
TableLines == SelectSeq(out, LAMBDA l :
                  l.kind \notin {"too_many_terms", "unknown_function"})

Finished == pc = "done"
Succeeded == pc = "done" /\ outcome = "ok"
\* the call is past the loop over the terms and has not raised
PastTermLoop == pc \in {"widths", "print_head", "print_rows"} \/ Succeeded
\* the call has left the term-count check behind
PastTermCheck == pc \notin {"idle", "check_terms"}
\* the name the lookup uses is an attribute of the provider
NameResolves == ReplaceTerm(term.name) \in NpUfuncs \cup NpPlainAttrs
\* the call ended in one of the two validation failures
ValidationFailure == outcome \in {"too_many_terms", "unknown_function"}

\* C1: a call that completes has printed exactly max_terms rows, the i-th for term
\* index i - 1 (numbered i) and showing terms[i - 1]; the term function has been
\* invoked max_terms times whatever the values it returned.
C1_ExactlyMaxTermsRows ==
    /\ PastTermLoop => Len(terms) = max_terms /\ Len(termCalls) = max_terms
    /\ Succeeded =>
          /\ Len(Rows) = max_terms
          /\ \A i \in 1..Len(Rows) :
                /\ Rows[i].number = i
                /\ Unformat(Rows[i].term) = terms[i]

\* C1 witness: a completed table whose rows hold different term values and whose
\* error is zero in a row that is not the last
C1_Witness ==
    /\ Succeeded
    /\ Len(Rows) = SmallTerms
    /\ terms[1] # terms[2]
    /\ differences[1] = Fin(0)

\* C2: the cumulative sums obey the prefix-sum law over the terms, in index order,
\* and each printed row shows the term and the cumulative sum of its index.
C2_PrefixSumLaw ==
    /\ PastTermLoop =>
          /\ Len(result_to_r) = Len(terms)
          /\ \A i \in 1..Len(result_to_r) :
                result_to_r[i] = IF i = 1 THEN terms[1]
                                 ELSE FAdd(result_to_r[i - 1], terms[i])
    /\ \A i \in 1..Len(Rows) :
          /\ Unformat(Rows[i].sofar) = result_to_r[i]
          /\ Unformat(Rows[i].sofar) =
                IF i = 1 THEN Unformat(Rows[1].term)
                ELSE FAdd(Unformat(Rows[i - 1].sofar), Unformat(Rows[i].term))

\* C2 witness: a completed table whose third cumulative sum differs from the third
\* term and from the second cumulative sum
C2_Witness ==
    /\ Succeeded
    /\ Len(Rows) >= 3
    /\ result_to_r[3] # terms[3]
    /\ result_to_r[3] # result_to_r[2]

\* C3: every error is the cumulative sum of its row minus the one reference value
\* of the call, which the provider computed once and the "Real" line shows.
C3_ErrorIsSumMinusReference ==
    /\ PastTermLoop =>
          /\ Len(differences) = Len(result_to_r)
          /\ \A i \in 1..Len(differences) :
                differences[i] = FSub(result_to_r[i], real_value)
    /\ Succeeded =>
          /\ realCalls = 1
          /\ Len(RealLines) = 1
          /\ Unformat(RealLines[1].value) = real_value
          /\ \A i \in 1..Len(Rows) :
                Unformat(Rows[i].error) =
                    FSub(Unformat(Rows[i].sofar), Unformat(RealLines[1].value))

\* C3 witness: a completed table with a non-zero reference value, a negative error
\* and a positive error
C3_Witness ==
    /\ Succeeded
    /\ real_value # Fin(0)
    /\ \E i, j \in 1..Len(differences) : differences[i].v < 0 /\ differences[j].v > 0

\* C4 (as stated): a call with max_terms >= 99 fails the term-count check, and the
\* term function is never invoked more than 98 times.
C4_CeilingIs99 ==
    /\ (PastTermCheck /\ max_terms >= MaxTermsCeiling - 1) => outcome = "too_many_terms"
    /\ Len(termCalls) <= MaxTermsCeiling - 2

\* C4 (amended): the ceiling is 100.  A call is rejected by the term-count check
\* exactly when max_terms >= 100; a call with max_terms = 98 or 99 of a notebook
\* generator at x = 0 prints all its rows; the loop never runs more than 99 times.
C4_CeilingIs100 ==
    /\ PastTermCheck => (outcome = "too_many_terms" <=> max_terms >= MaxTermsCeiling)
    /\ outcome = "too_many_terms" =>
          /\ Finished /\ returned = "None"
          /\ out = << [kind |-> "too_many_terms"] >>
    /\ (Finished /\ term \in NotebookTerms /\ x = Fin(0)
          /\ max_terms \in {MaxTermsCeiling - 2, MaxTermsCeiling - 1}) =>
          outcome = "ok" /\ Len(Rows) = max_terms
    /\ Len(termCalls) <= MaxTermsCeiling - 1
    /\ r <= MaxTermsCeiling - 1

\* C4 witness: a completed table of 99 rows
C4_Witness ==
    /\ Succeeded
    /\ max_terms = MaxTermsCeiling - 1
    /\ Len(termCalls) = MaxTermsCeiling - 1
    /\ Len(Rows) = MaxTermsCeiling - 1

\* C5: a call with max_terms <= 0 is rejected by the up-front term-count check and
\* prints no rows.
C5_NonPositiveRejected ==
    (PastTermCheck /\ max_terms <= 0) =>
        outcome = "too_many_terms" /\ Len(Rows) = 0

\* C6: a call with an accepted max_terms whose looked-up name is no attribute of the
\* provider ends in the unknown-function failure, for every x, with no row printed.
C6_UnknownFunctionFails ==
    (Finished /\ max_terms < MaxTermsCeiling /\ ~NameResolves) =>
        /\ outcome = "unknown_function"
        /\ returned = "None"
        /\ out = << [kind |-> "unknown_function", name |-> ReplaceTerm(term.name)] >>
        /\ Len(Rows) = 0

\* C6 witness: the failure at a special evaluation point with a non-positive count
C6_Witness ==
    /\ Finished
    /\ outcome = "unknown_function"
    /\ term = foo_term
    /\ IsSpecial(x)
    /\ max_terms <= 0

\* C7: in a call whose max_terms is at or above the ceiling or whose looked-up name
\* does not resolve, the term function is never invoked, the provider function is
\* never called and no line of the table is printed, at any point of the call.
C7_NothingComputedOnFailure ==
    /\ (PastTermCheck /\ (max_terms >= MaxTermsCeiling \/ ~NameResolves)) =>
          /\ termCalls = <<>>
          /\ realCalls = 0
          /\ real_value = NoValue
          /\ terms = <<>> /\ result_to_r = <<>> /\ differences = <<>>
          /\ Len(TableLines) = 0
          /\ pc \in {"check_name", "done"}
    /\ ValidationFailure =>
          /\ Finished
          /\ termCalls = <<>> /\ realCalls = 0
          /\ Len(out) = 1 /\ Len(TableLines) = 0

\* C7 witness: an unknown-function failure right after a too-many-terms failure
C7_Witness ==
    /\ Finished
    /\ outcome = "unknown_function"
    /\ prevOutcome = "too_many_terms"
    /\ termCalls = <<>> /\ realCalls = 0

\* C8 (as stated): two calls that ended differently (too many terms, unknown
\* function, completed table) returned different things to their callers.
C8_ReturnsDistinguish ==
    (/\ Finished
     /\ outcome \in {"too_many_terms", "unknown_function", "ok"}
     /\ prevOutcome \in {"too_many_terms", "unknown_function", "ok"}
     /\ outcome # prevOutcome) => returned # prevReturned

\* C8 (amended): the three outcomes all return None; they are told apart only by
\* what was printed: one too-many-terms line, one unknown-function line, or a table.
C8_PrintedOutputDistinguishes ==
    (Finished /\ outcome \in {"too_many_terms", "unknown_function", "ok"}) =>
        /\ returned = "None"
        /\ outcome = "too_many_terms" <=> out[1].kind = "too_many_terms"
        /\ outcome = "unknown_function" <=> out[1].kind = "unknown_function"
        /\ outcome = "ok" <=> out[1].kind = "rule"
        /\ outcome # "ok" => Len(out) = 1
        /\ outcome = "ok" => Len(out) = max_terms + 8

\* C8 witness: a completed table after an unknown-function failure, both of which
\* returned None
C8_Witness ==
    /\ Succeeded
    /\ prevOutcome = "unknown_function"
    /\ returned = "None" /\ prevReturned = "None"

\* C9: a call that ended in neither validation failure completed and printed the
\* full table: max_terms rows and the reference value.
C9_OnlyTwoFailures ==
    (Finished /\ ~ValidationFailure) =>
        /\ outcome = "ok"
        /\ Len(Rows) = max_terms
        /\ Len(RealLines) = 1

\* C10: a call with a positive max_terms past both checks whose reference value or a partial sum is an
\* infinity or nan still completes, and its rows and "Real" line show those values.
C10_SpecialValuesPassThrough ==
    (/\ Finished
     /\ ~ValidationFailure
     /\ max_terms > 0
     /\ \/ IsSpecial(real_value)
        \/ \E i \in 1..Len(result_to_r) : IsSpecial(result_to_r[i])) =>
        /\ outcome = "ok"
        /\ Len(RealLines) = 1 /\ Unformat(RealLines[1].value) = real_value
        /\ \A i \in 1..Len(Rows) : Unformat(Rows[i].sofar) = result_to_r[i]

\* C11: a call with the arguments of a remembered earlier call ends the way that
\* call ended: same outcome, same value returned, same lines printed, whatever
\* calls were made in between.
C11_SameInputsSameOutput ==
    (/\ Finished
     /\ memo.set
     /\ memo.term = term /\ memo.x = x /\ memo.max_terms = max_terms) =>
        /\ memo.outcome = outcome
        /\ memo.returned = returned
        /\ memo.out = out

\* C11 witness: a completed table equal to the remembered one, after a call that
\* ended differently
C11_Witness ==
    /\ Succeeded
    /\ memo.set
    /\ memo.term = term /\ memo.x = x /\ memo.max_terms = max_terms
    /\ memo.out = out
    /\ Len(Rows) >= 2
    /\ prevOutcome # "ok"

\* C12: with the sine generator at x = 0 every term, every cumulative sum and every
\* error is exactly 0, and every call with 1 <= max_terms < 100 prints them so.
C12_SineAtZero ==
    (term = sin_term /\ x = Fin(0)) =>
        /\ \A i \in 1..Len(terms) : terms[i] = Fin(0)
        /\ \A i \in 1..Len(result_to_r) : result_to_r[i] = Fin(0)
        /\ \A i \in 1..Len(differences) : differences[i] = Fin(0)
        /\ real_value \in {NoValue, Fin(0)}
        /\ (Finished /\ max_terms \in 1..(MaxTermsCeiling - 1)) =>
              /\ outcome = "ok"
              /\ Len(Rows) = max_terms
              /\ \A i \in 1..Len(Rows) :
                    /\ Rows[i].term = FormatF12(Fin(0), " ", column_width - 2)
                    /\ Rows[i].sofar = FormatF12(Fin(0), " ", column_width - 2)
                    /\ Rows[i].error = FormatF12(Fin(0), "+", column_width - 2)

\* C12 witness: the completed table of 99 rows of the sine series at 0
C12_Witness ==
    /\ Succeeded
    /\ term = sin_term /\ x = Fin(0)
    /\ max_terms = MaxTermsCeiling - 1
    /\ Len(termCalls) = max_terms

\* what a printed number shows: sign, digits before the point, twelve decimals
Shows(f, sgn, whole, d1, d2, d3) ==
    f.sign = sgn /\ f.k = "fin" /\ f.whole = whole /\ f.frac = <<d1, d2, d3>>

\* a finite value rounded to two decimals, in hundredths of its magnitude
Hundredths(v) ==
    LET m == MagOf(v)
    IN  m[1] * 100 + (m[2] \div 100) + (IF m[2] % 100 >= 50 THEN 1 ELSE 0)

\* a printed number rounded to six decimals, in millionths of its magnitude
Millionths(f) ==
    f.whole * 1000000 + f.frac[1] * 100 + (f.frac[2] \div 100)
        + (IF f.frac[2] % 100 >= 50 THEN 1 ELSE 0)

ExpAtOneSixTerms ==
    Succeeded /\ term = exp_term /\ x = Fin(1) /\ max_terms = 6

\* C13: the exponential series at x = 1 with 6 terms prints the terms 1, 1, 1/2,
\* 1/6, 1/24, 1/120 and the sixth cumulative sum 2.716666666667, which agrees with
\* the reference value to 3 significant figures (2.72).
C13_ExpSixTerms ==
    ExpAtOneSixTerms =>
        /\ Shows(Rows[1].term, " ", 1, 0, 0, 0)
        /\ Shows(Rows[2].term, " ", 1, 0, 0, 0)
        /\ Shows(Rows[3].term, " ", 0, 5000, 0, 0)
        /\ Shows(Rows[4].term, " ", 0, 1666, 6666, 6667)
        /\ Shows(Rows[5].term, " ", 0, 416, 6666, 6667)
        /\ Shows(Rows[6].term, " ", 0, 83, 3333, 3333)
        /\ Shows(Rows[6].sofar, " ", 2, 7166, 6666, 6667)
        /\ Hundredths(result_to_r[6]) = 272
        /\ Hundredths(real_value) = 272

\* C13 witness: the completed table of the notebook's call with 6 terms
C13_Witness ==
    /\ ExpAtOneSixTerms
    /\ Len(Rows) = 6
    /\ result_to_r[6] # real_value

\* C14 (as stated): the sixth error of the exponential series at x = 1 is
\* -0.001529 to six decimals, the reference value being 2.718281828459.
C14_ErrorIsMinus001529 ==
    ExpAtOneSixTerms =>
        /\ Rows[6].error.sign = "-"
        /\ Millionths(Rows[6].error) = 1529
        /\ Shows(RealLines[1].value, " ", 2, 7182, 8182, 8459)

\* C14 (amended): the sixth error is -0.001615161792, that is -0.001615 to six
\* decimals, the reference value being 2.718281828459.
C14_ErrorIsMinus001615 ==
    ExpAtOneSixTerms =>
        /\ Shows(Rows[6].error, "-", 0, 16, 1516, 1792)
        /\ Millionths(Rows[6].error) = 1615
        /\ Shows(RealLines[1].value, " ", 2, 7182, 8182, 8459)
        /\ differences[6] = FSub(result_to_r[6], real_value)

\* C14 witness: the completed table, its sixth error negative and not zero
C14_Witness ==
    /\ ExpAtOneSixTerms
    /\ differences[6].k = "dec" /\ differences[6].v < 0
    /\ Rows[6].error.sign = "-"

\* C15: population_derivatives([y, z], t, beta) returns [(z - beta) * y, (1 - y) * z],
\* and two calls that differ in the time only return the same.
C15_DerivativesIgnoreTime ==
    /\ lvCall.set =>
          LET y == lvCall.populations[1]
              z == lvCall.populations[2]
          IN  /\ Len(lvResult) = 2
              /\ lvResult[1] = z * y - lvCall.beta * y
              /\ lvResult[2] = z - y * z
    /\ (/\ lvCall.set /\ lvPrevCall.set
        /\ lvCall.populations = lvPrevCall.populations
        /\ lvCall.beta = lvPrevCall.beta) =>
          lvResult = lvPrevResult

\* C15 witness: two calls at different times with the same populations and beta,
\* neither derivative being zero
C15_Witness ==
    /\ lvCall.set /\ lvPrevCall.set
    /\ lvCall.populations = lvPrevCall.populations
    /\ lvCall.beta = lvPrevCall.beta
    /\ lvCall.t # lvPrevCall.t
    /\ lvResult = lvPrevResult
    /\ lvResult[1] # 0 /\ lvResult[2] # 0

HFinished == hpc = "done"
\* the call printed one error and returned
HRejected == houtcome \in {"alpha_error", "theta_error", "divisions_error"}

\* C16 (as stated, for a positive int of divisions): a call with
\* alpha_min >= alpha_max or theta_min >= theta_max prints the error of that range
\* and returns without plotting.
C16_EqualRangesRejected ==
    (/\ HFinished
     /\ divisions_per_radian.n > 0 /\ divisions_per_radian.type = "int"
     /\ (alpha_min >= alpha_max \/ theta_min >= theta_max)) =>
        /\ houtcome \in {"alpha_error", "theta_error"}
        /\ hout = << [kind |-> houtcome] >>
        /\ ~grid.built /\ ~fig /\ ~surface

\* C17 (as stated): a call whose divisions_per_radian is not a positive integer
\* prints the divisions error and returns with no grid and no figure.
C17_DivisionsErrorPrinted ==
    (HFinished /\ ~(divisions_per_radian.n > 0 /\ divisions_per_radian.type = "int")) =>
        /\ hout = << [kind |-> "divisions_error"] >>
        /\ ~grid.built /\ ~fig

\* C17 (amended): a call whose divisions_per_radian is not a positive integer never
\* builds a grid or creates a figure; it ends having printed one error: that of the
\* alpha range if alpha_min > alpha_max, else that of the theta range if
\* theta_min > theta_max, else the divisions error.
C17_BadDivisionsRejected ==
    (hpc # "idle"
       /\ ~(divisions_per_radian.n > 0 /\ divisions_per_radian.type = "int")) =>
        /\ ~grid.built /\ ~fig /\ ~surface
        /\ alpha_array = <<>> /\ theta_array = <<>>
        /\ hpc \in {"check_alpha", "check_theta", "check_divisions", "done"}
        /\ HFinished =>
              /\ houtcome = IF alpha_min > alpha_max THEN "alpha_error"
                            ELSE IF theta_min > theta_max THEN "theta_error"
                            ELSE "divisions_error"
              /\ hout = << [kind |-> houtcome] >>

\* C17 witness: a float number of divisions, the ranges in order, rejected
C17_Witness ==
    /\ HFinished
    /\ divisions_per_radian.type = "float" /\ divisions_per_radian.n > 0
    /\ alpha_min < alpha_max /\ theta_min < theta_max
    /\ hout = << [kind |-> "divisions_error"] >>

\* the indices 0, 1, ..., n - 1 in order
Indices(n) == [i \in 1..n |-> i - 1]

\* C18: the numpy function is called once, after both checks have passed and before
\* the first call of the term function; the term function is called with 0, 1, ...
\* in order, once each, and with every index below max_terms by the end of the loop.
C18_ReferenceOnceThenTermsInOrder ==
    /\ realCalls <= 1
    /\ realCalls = 1 =>
          /\ pc \notin {"idle", "check_terms", "check_name", "real_value"}
          /\ ~TooManyTerms(max_terms)
          /\ ~UnknownFunction(function_name)
    /\ pc \in {"alloc", "loop", "widths", "print_head", "print_rows"} => realCalls = 1
    /\ Len(termCalls) > 0 => realCalls = 1
    /\ termCalls = Indices(Len(termCalls))
    /\ pc = "loop" => Len(termCalls) = r
    /\ PastTermLoop =>
          /\ realCalls = 1
          /\ termCalls = Indices(IF max_terms > 0 THEN max_terms ELSE 0)
          /\ real_value = RealFunction(function_name, x)

\* C18 witness: a completed call of three terms
C18_Witness ==
    /\ Succeeded
    /\ max_terms = SmallTerms
    /\ realCalls = 1
    /\ termCalls = <<0, 1, 2>>

\* the lookup has been made
NameLookedUp ==
    pc \notin {"idle", "check_terms", "check_name"} /\ outcome # "too_many_terms"

\* the number of occurrences of "_term" that replace finds in s, from the left
RECURSIVE Occurrences(_)
Occurrences(s) ==
    IF Len(s) < Len(TermSuffix) THEN 0
    ELSE IF SubSeq(s, 1, Len(TermSuffix)) = TermSuffix
         THEN 1 + Occurrences(SubSeq(s, Len(TermSuffix) + 1, Len(s)))
    ELSE Occurrences(Tail(s))

C20_GridNonEmpty ==
    (/\ hpc \notin {"idle", "check_alpha", "check_theta", "check_divisions"}
     /\ ~HRejected
     /\ alpha_min < alpha_max /\ theta_min < theta_max) =>
        /\ grid.built => (grid.rows >= 1 /\ grid.cols >= 1)
        /\ HFinished => houtcome = "shown"

====
